---- MODULE Spec2Model ----
(***************************************************************************)
(* Model of the graph serializer/deserializer of main.cpp: the varint      *)
(* codec, the TSV scanner, Serializer::run and Deserializer::run.          *)
(*                                                                         *)
(* Numbers.  A byte is a natural below 256.  A uint64_t is the set of its  *)
(* one-bits (a subset of 0..63), so shifts, masks and the 64-bit limit are *)
(* exact.  A uint32_t is a natural below 2^U32Bits: TLC's integers stop at *)
(* 2^31-1, so the width of uint32_t is a bound of the model and all        *)
(* uint32_t arithmetic is taken modulo 2^U32Bits.                          *)
(* Text and binary files are sequences of bytes (ASCII codes for text).    *)
(***************************************************************************)
EXTENDS Integers, Sequences, FiniteSets, TLC

VARIABLES
    pc,     \* position of the run
    err,    \* message of die(), "" while alive
    tsv,    \* bytes of the serializer's input file
    bin,    \* bytes of the binary file (serializer output, deserializer input)
    out,    \* bytes of the deserializer's output file
    ser,    \* locals of Serializer::run
    des,    \* locals of Deserializer::run
    ghost   \* the scenario of the run and what was observed of it (never read
            \* by the program)

vars == <<pc, err, tsv, bin, out, ser, des, ghost>>

----------------------------------------------------------------------------
\* Bounds of the model.

U32Bits == 10      \* modelled width of uint32_t
MaxLines == 3      \* edge lines of a serializer input
MaxFrags == 4      \* text fragments of a scanner input
MaxRaw == 3        \* bytes of a free-form varint input
MaxEntries == 2    \* adjacency entries of a hand-made binary

U32Max == 2^U32Bits - 1
U32Mod == 2^U32Bits

\* ASCII
TAB == 9
LF == 10
CR == 13

----------------------------------------------------------------------------
\* Sequences and bit sets.

Range(s) == {s[n] : n \in DOMAIN s}

RECURSIVE Flatten(_)
Flatten(ss) == IF ss = <<>> THEN <<>> ELSE Head(ss) \o Flatten(Tail(ss))

RECURSIVE SumSeq(_)
SumSeq(s) == IF s = <<>> THEN 0 ELSE Head(s) + SumSeq(Tail(s))

\* sequences over S of length 0..n
SeqsUpTo(S, n) == UNION {[1..m -> S] : m \in 0..n}

\* value of a set of bit positions (all below 31)
RECURSIVE BitsVal(_)
BitsVal(S) ==
    IF S = {} THEN 0
    ELSE LET b == CHOOSE b \in S : TRUE IN 2^b + BitsVal(S \ {b})

\* bits of a natural below 2^31: the conversion of a smaller unsigned to uint64_t
U64(n) == {b \in 0..30 : (n \div 2^b) % 2 = 1}

\* (uint32_t)x for a uint64_t x
U32Cast(x) == BitsVal({b \in x : b < U32Bits})

\* bits of a byte, shifted left by s inside 64 bits
ByteShl(b, s) == {k + s : k \in {n \in 0..7 : (b \div 2^n) % 2 = 1}} \cap (0..63)

\* k < x for a small natural k and a uint64_t x
LessU64(k, x) == (\E b \in x : b > 30) \/ k < BitsVal(x)

----------------------------------------------------------------------------
\* BinWriter: each operation is the sequence of bytes it put()s.

BinWriter_u32le(x) ==
    << x % 256, (x \div 256) % 256, (x \div 65536) % 256, (x \div 16777216) % 256 >>

BinWriter_u64le(x) ==
    [n \in 1..8 |-> BitsVal({b - 8 * (n - 1) : b \in {c \in x : c \div 8 = n - 1}})]

\* a writer that shifts by a whole byte
RECURSIVE BinWriter_varu_shift8(_)
BinWriter_varu_shift8(x) ==
    IF \E b \in x : b >= 7
    THEN << BitsVal({b \in x : b < 7}) + 128 >>
         \o BinWriter_varu_shift8({b - 8 : b \in {c \in x : c >= 8}})
    ELSE << BitsVal(x) >>

\* line 120
RECURSIVE BinWriter_varu(_)
BinWriter_varu(x) ==
    IF \E b \in x : b >= 7                       \* x >= 0x80
    THEN << BitsVal({b \in x : b < 7}) + 128 >>     \* put(uint8_t(x) | 0x80)
         \o BinWriter_varu({b - 7 : b \in {c \in x : c >= 7}})   \* x >>= 7
    ELSE << BitsVal(x) >>

----------------------------------------------------------------------------
\* BinReader over the bytes buf, p the index of the next byte (1-based).
\* Each operation yields [ok, x, p]: ok = "ok" or the message it dies with.

BinReader_has(buf, p, n) == Len(buf) - (p - 1) >= n

BinReader_get(buf, p) ==
    IF ~BinReader_has(buf, p, 1)
    THEN [ok |-> "unexpected EOF in binary file", x |-> 0, p |-> p]
    ELSE [ok |-> "ok", x |-> buf[p], p |-> p + 1]

BinReader_u32le(buf, p) ==
    IF ~BinReader_has(buf, p, 4)
    THEN [ok |-> "unexpected EOF (u32)", x |-> 0, p |-> p]
    ELSE [ok |-> "ok",
          x |-> buf[p] + 256 * buf[p + 1] + 65536 * buf[p + 2] + 16777216 * buf[p + 3],
          p |-> p + 4]

BinReader_u64le(buf, p) ==
    IF ~BinReader_has(buf, p, 8)
    THEN [ok |-> "unexpected EOF (u64)", x |-> {}, p |-> p]
    ELSE [ok |-> "ok",
          x |-> UNION {ByteShl(buf[p + n], 8 * n) : n \in 0..7},
          p |-> p + 8]

RECURSIVE varuLoop(_, _, _, _)

\* a reader that tests the shift before it adds 7
varuByteLateCheck(buf, p, x2, s) ==
    IF buf[p] < 128 THEN [ok |-> "ok", x |-> x2, p |-> p + 1]
    ELSE IF s > 63 THEN [ok |-> "varint too long", x |-> x2, p |-> p + 1]
    ELSE varuLoop(buf, p + 1, x2, s + 7)

\* the rest of one iteration, x2 the value after x |= uint64_t(b & 0x7F) << s
varuByte(buf, p, x2, s) ==
    IF buf[p] < 128 THEN [ok |-> "ok", x |-> x2, p |-> p + 1]
    ELSE IF s + 7 > 63 THEN [ok |-> "varint too long", x |-> x2, p |-> p + 1]
    ELSE varuLoop(buf, p + 1, x2, s + 7)

varuLoop(buf, p, x, s) ==
    IF ~BinReader_has(buf, p, 1)
    THEN [ok |-> "unexpected EOF (varint)", x |-> x, p |-> p]
    ELSE varuByte(buf, p, x \cup ByteShl(buf[p] % 128, s), s)

BinReader_varu(buf, p) == varuLoop(buf, p, {}, 0)

----------------------------------------------------------------------------
\* TextWriter: decimal text of a number, as std::to_chars writes it.

RECURSIVE to_chars(_)
to_chars(x) == IF x < 10 THEN << 48 + x >> ELSE to_chars(x \div 10) \o << 48 + (x % 10) >>

TextWriter_putu(x) == to_chars(x)

TextWriter_putu8(x) == to_chars(x)

\* one output line: putu, put('\t'), putu, put('\t'), putu8, newline
TextLine(u, v, w) ==
    TextWriter_putu(u) \o <<TAB>> \o TextWriter_putu(v) \o <<TAB>>
        \o TextWriter_putu8(w) \o <<LF>>

----------------------------------------------------------------------------
\* TSVScanner over the bytes txt, q the index of the next byte (1-based).

skip_newline(txt, q) ==
    LET q1 == IF q <= Len(txt) /\ txt[q] = CR THEN q + 1 ELSE q
    IN  IF q1 <= Len(txt) /\ txt[q1] = LF THEN q1 + 1 ELSE q1

\* the while loop of parse_u32_until: [fail, q, x, any]
RECURSIVE parseLoop(_, _, _, _, _)
parseLoop(txt, q, delim, x, any) ==
    IF q > Len(txt) THEN [fail |-> FALSE, q |-> q, x |-> x, any |-> any]
    ELSE LET c == txt[q] IN
         IF c >= 48 /\ c <= 57
         THEN LET x2 == x * 10 + (c - 48)
              IN  IF x2 > U32Max THEN [fail |-> TRUE, q |-> q + 1, x |-> x2, any |-> TRUE]
                  ELSE parseLoop(txt, q + 1, delim, x2, TRUE)
         ELSE IF c = delim THEN [fail |-> FALSE, q |-> q + 1, x |-> x, any |-> any]
         ELSE IF delim = LF /\ (c = LF \/ c = CR)
              THEN [fail |-> FALSE, q |-> q + 1, x |-> x, any |-> any]
         ELSE [fail |-> TRUE, q |-> q + 1, x |-> x, any |-> any]

\* a result that lets a field without digits through
parseResultNoAny(r) ==
    IF r.fail THEN [ok |-> FALSE, q |-> r.q, out |-> 0]
    ELSE [ok |-> TRUE, q |-> r.q, out |-> r.x]

\* lines 154-156 on the state r the loop ended in
parseResult(r) ==
    IF r.fail \/ ~r.any THEN [ok |-> FALSE, q |-> r.q, out |-> 0]
    ELSE [ok |-> TRUE, q |-> r.q, out |-> r.x]

\* [ok, q, out]
parse_u32_until(txt, q, delim) == parseResult(parseLoop(txt, q, delim, 0, FALSE))

ScanDie(q, msg) == [kind |-> "die", q |-> q, t |-> <<>>, msg |-> msg]

\* lines 171-176, r3 the result of the third parse_u32_until
scanField3(txt, r1, r2, r3) ==
    IF ~r3.ok \/ r3.out > 255
    THEN ScanDie(r3.q, "parse error: expected weight 0..255 then newline")
    ELSE [kind |-> "triple",
          q |-> IF r3.q <= Len(txt) /\ txt[r3.q - 1] = CR /\ txt[r3.q] = LF
                THEN r3.q + 1 ELSE r3.q,
          t |-> <<r1.out, r2.out, r3.out>>, msg |-> ""]

\* lines 169-170, r2 the result of the second parse_u32_until
scanField2(txt, r1, r2) ==
    IF ~r2.ok THEN ScanDie(r2.q, "parse error: expected second uint32 before TAB")
    ELSE scanField3(txt, r1, r2, parse_u32_until(txt, r2.q, LF))

\* lines 167-168, r1 the result of the first parse_u32_until
scanField1(txt, r1) ==
    IF ~r1.ok THEN ScanDie(r1.q, "parse error: expected first uint32 before TAB")
    ELSE scanField2(txt, r1, parse_u32_until(txt, r1.q, TAB))

\* One iteration of the while loop of for_each_triplet, entered with q <= Len(txt):
\* [kind, q, t, msg], kind "skip" (a blank line), "triple" (f is called with t)
\* or "die".
scan_iteration(txt, q) ==
    IF txt[q] = LF \/ txt[q] = CR
    THEN [kind |-> "skip", q |-> skip_newline(txt, q), t |-> <<>>, msg |-> ""]
    ELSE scanField1(txt, parse_u32_until(txt, q, TAB))

\* The whole loop: [ok, triples], the triples f was called with, in order, and
\* ok = "ok" or the message the loop died with.
RECURSIVE scanFrom(_, _, _)

scanNext(txt, r, acc) ==
    IF r.kind = "die" THEN [ok |-> r.msg, triples |-> acc]
    ELSE IF r.kind = "skip" THEN scanFrom(txt, r.q, acc)
    ELSE scanFrom(txt, r.q, Append(acc, r.t))

scanFrom(txt, q, acc) ==
    IF q > Len(txt) THEN [ok |-> "ok", triples |-> acc]
    ELSE scanNext(txt, scan_iteration(txt, q), acc)

for_each_triplet(txt) == scanFrom(txt, 1, <<>>)

----------------------------------------------------------------------------
\* Vectors indexed from 0 are functions on 0..n-1.

Size(v) == Cardinality(DOMAIN v)

ZeroBased(s) == [n \in 0..(Len(s) - 1) |-> s[n + 1]]

Filled(n, x) == [m \in 0..(n - 1) |-> x]

RECURSIVE SortedSeq(_)
SortedSeq(S) ==
    IF S = {} THEN <<>>
    ELSE LET m == CHOOSE m \in S : \A n \in S : m <= n
         IN  <<m>> \o SortedSeq(S \ {m})

Min2(a, b) == IF a < b THEN a ELSE b
Max2(a, b) == IF a < b THEN b ELSE a

\* uint32_t subtraction
SubU32(a, b) == (a - b + U32Mod) % U32Mod

\* uint32_t addition
AddU32(a, b) == (a + b) % U32Mod

----------------------------------------------------------------------------
\* Serializer::run

SerLocals0 ==
    [all_ids |-> <<>>, line_cnt |-> 0, uniq |-> <<>>, deg_plus |-> <<>>,
     M_noLoops |-> 0, loops_count |-> 0, off |-> <<>>, cur |-> <<>>,
     upper_nei |-> <<>>, upper_w |-> <<>>, loops |-> <<>>, q |-> 1, M_total |-> 0]

\* sort(uniq); uniq.erase(unique(uniq)): the distinct values, ascending
SortUnique(ids) == ZeroBased(SortedSeq(Range(ids)))

\* std::lower_bound(uniq, orig): the first index whose value is >= orig
lower_bound(uniq, orig) ==
    LET ge == {n \in DOMAIN uniq : uniq[n] >= orig}
    IN  IF ge = {} THEN Size(uniq) ELSE CHOOSE n \in ge : \A m \in ge : n <= m

idxCheck(uniq, orig, it) == IF it = Size(uniq) \/ uniq[it] # orig THEN -1 ELSE it

\* idx_of (lines 228-232), -1 where the code dies with "id not found"
idx_of(uniq, orig) == idxCheck(uniq, orig, lower_bound(uniq, orig))

\* the callback of pass 2 over the triples, st = [deg_plus, M_noLoops, loops_count, ok]
RECURSIVE pass2(_, _, _)

pass2Edge(triples, uniq, st, ia, ib) ==
    IF ia = -1 \/ ib = -1 THEN [st EXCEPT !.ok = FALSE]
    ELSE IF ia = ib
    THEN pass2(Tail(triples), uniq, [st EXCEPT !.loops_count = @ + 1])
    ELSE pass2(Tail(triples), uniq,
               [st EXCEPT !.deg_plus[Min2(ia, ib)] = @ + 1, !.M_noLoops = @ + 1])

pass2(triples, uniq, st) ==
    IF triples = <<>> THEN st
    ELSE pass2Edge(triples, uniq, st,
                   idx_of(uniq, Head(triples)[1]), idx_of(uniq, Head(triples)[2]))

\* off[0] = 0, off[i+1] = off[i] + deg_plus[i]
PrefixSums(deg_plus) ==
    [n \in 0..Size(deg_plus) |-> SumSeq([m \in 1..n |-> deg_plus[m - 1]])]

\* "GRPH", version 2, endian 1
HeaderV2 == <<71, 82, 80, 72, 2, 1>>

\* the deltas of the mapping: d = uniq[i] - uniq[i-1] for i = 1..N-1
MappingDeltas(uniq) == [n \in 1..(Size(uniq) - 1) |-> SubU32(uniq[n], uniq[n - 1])]

\* lines 294-300: u32le(uniq[0]), then varu(d)
EmitMapping(uniq) ==
    IF Size(uniq) > 0
    THEN BinWriter_u32le(uniq[0])
         \o Flatten([n \in 1..(Size(uniq) - 1) |->
                        BinWriter_varu(U64(SubU32(uniq[n], uniq[n - 1])))])
    ELSE <<>>

\* the gaps written for vertex i: gap = j - prev, prev = i at first, then prev = j
AdjGaps(off, upper_nei, i) ==
    [n \in 1..(off[i + 1] - off[i]) |->
        SubU32(upper_nei[off[i] + n - 1],
               IF n = 1 THEN i ELSE upper_nei[off[i] + n - 2])]

\* lines 303-315
EmitAdjacency(off, upper_nei, upper_w) ==
    Flatten([m \in 1..(Size(off) - 1) |->
        BinWriter_varu(U64(off[m] - off[m - 1]))
        \o Flatten([n \in 1..(off[m] - off[m - 1]) |->
              BinWriter_varu(U64(
                  SubU32(upper_nei[off[m - 1] + n - 1],
                         IF n = 1 THEN m - 1 ELSE upper_nei[off[m - 1] + n - 2])))
              \o << upper_w[off[m - 1] + n - 1] >>])])

\* the deltas written for the loops: delta = v - prevLoop, prevLoop = 0 at first
LoopDeltas(loops) ==
    [n \in 1..Len(loops) |->
        SubU32(loops[n][1], IF n = 1 THEN 0 ELSE loops[n - 1][1])]

\* lines 318-326
EmitLoops(loops) ==
    BinWriter_varu(U64(Len(loops)))
    \o Flatten([n \in 1..Len(loops) |->
          BinWriter_varu(U64(SubU32(loops[n][1], IF n = 1 THEN 0 ELSE loops[n - 1][1])))
          \o << loops[n][2] >>])

\* die(): the message is printed and the process exits; no destructor runs
Die(msg) ==
    /\ pc' = "error"
    /\ err' = msg

SerPass1Body(r) ==
    IF r.ok # "ok"
    THEN Die(r.ok) /\ UNCHANGED ser
    ELSE /\ ser' = [ser EXCEPT
                       !.all_ids = Flatten([n \in 1..Len(r.triples) |->
                                      <<r.triples[n][1], r.triples[n][2]>>]),
                       !.line_cnt = Len(r.triples)]
         /\ pc' = "ser_pass1_done"
         /\ UNCHANGED err

\* Pass 1 (lines 203-211): collect all ids, count the lines
SerPass1 ==
    /\ pc = "ser_start"
    /\ SerPass1Body(for_each_triplet(tsv))
    /\ UNCHANGED <<tsv, bin, out, des, ghost>>

\* empty graph (lines 213-220): header, N = 0, M = 0
SerEmpty ==
    /\ pc = "ser_pass1_done"
    /\ ser.line_cnt = 0
    /\ bin' = HeaderV2 \o BinWriter_varu(U64(0)) \o BinWriter_varu(U64(0))
    /\ pc' = "ser_done"
    /\ UNCHANGED <<err, tsv, out, ser, des, ghost>>

\* lines 222-226
SerUniq ==
    /\ pc = "ser_pass1_done"
    /\ ser.line_cnt # 0
    /\ ser' = [ser EXCEPT !.uniq = SortUnique(ser.all_ids), !.all_ids = <<>>]
    /\ pc' = "ser_pass2"
    /\ UNCHANGED <<err, tsv, bin, out, des, ghost>>

SerPass2Count(r, st) ==
    IF ~st.ok THEN Die("id not found in uniq (internal)") /\ UNCHANGED ser
    ELSE IF r.ok # "ok" THEN Die(r.ok) /\ UNCHANGED ser
    ELSE /\ ser' = [ser EXCEPT !.deg_plus = st.deg_plus,
                               !.M_noLoops = st.M_noLoops,
                               !.loops_count = st.loops_count]
         /\ pc' = "ser_prefix"
         /\ UNCHANGED err

SerPass2Body(r) ==
    SerPass2Count(r, pass2(r.triples, ser.uniq,
                           [deg_plus |-> Filled(Size(ser.uniq), 0), M_noLoops |-> 0,
                            loops_count |-> 0, ok |-> TRUE]))

\* Pass 2 (lines 234-245): count deg_plus and loops
SerPass2 ==
    /\ pc = "ser_pass2"
    /\ SerPass2Body(for_each_triplet(tsv))
    /\ UNCHANGED <<tsv, bin, out, des, ghost>>

SerPrefixBody(off) ==
    ser' = [ser EXCEPT !.off = off,
                       !.upper_nei = Filled(off[Size(ser.uniq)], 0),
                       !.upper_w = Filled(off[Size(ser.uniq)], 0),
                       !.cur = off,
                       !.loops = <<>>,
                       !.q = 1]

\* lines 247-256: prefix sums, storage, cursors, third scanner
SerPrefix ==
    /\ pc = "ser_prefix"
    /\ SerPrefixBody(PrefixSums(ser.deg_plus))
    /\ pc' = "ser_pass3"
    /\ UNCHANGED <<err, tsv, bin, out, des, ghost>>

\* a callback that leaves the cursor where it was
SerPass3EdgeNoAdvance(r, ia, ib) ==
    IF ia = -1 \/ ib = -1
    THEN Die("id not found in uniq (internal)") /\ UNCHANGED ser
    ELSE IF ia = ib
    THEN /\ ser' = [ser EXCEPT !.loops = Append(@, <<ia, r.t[3]>>), !.q = r.q]
         /\ UNCHANGED <<pc, err>>
    ELSE IF ser.cur[Min2(ia, ib)] \in DOMAIN ser.upper_nei
    THEN /\ ser' = [ser EXCEPT !.upper_nei[ser.cur[Min2(ia, ib)]] = Max2(ia, ib),
                               !.upper_w[ser.cur[Min2(ia, ib)]] = r.t[3],
                               !.q = r.q]
         /\ UNCHANGED <<pc, err>>
    ELSE /\ pc' = "undefined"
         /\ UNCHANGED <<err, ser>>

\* the callback of pass 3 (lines 258-266) on the triple of r
SerPass3Edge(r, ia, ib) ==
    IF ia = -1 \/ ib = -1
    THEN Die("id not found in uniq (internal)") /\ UNCHANGED ser
    ELSE IF ia = ib
    THEN /\ ser' = [ser EXCEPT !.loops = Append(@, <<ia, r.t[3]>>), !.q = r.q]
         /\ UNCHANGED <<pc, err>>
    ELSE IF ser.cur[Min2(ia, ib)] \in DOMAIN ser.upper_nei
    THEN /\ ser' = [ser EXCEPT !.upper_nei[ser.cur[Min2(ia, ib)]] = Max2(ia, ib),
                               !.upper_w[ser.cur[Min2(ia, ib)]] = r.t[3],
                               !.cur[Min2(ia, ib)] = @ + 1,
                               !.q = r.q]
         /\ UNCHANGED <<pc, err>>
    ELSE \* a write past the end of upper_nei: undefined behaviour
         /\ pc' = "undefined"
         /\ UNCHANGED <<err, ser>>

SerPass3Iter(r) ==
    IF r.kind = "die" THEN Die(r.msg) /\ UNCHANGED ser
    ELSE IF r.kind = "skip" THEN ser' = [ser EXCEPT !.q = r.q] /\ UNCHANGED <<pc, err>>
    ELSE SerPass3Edge(r, idx_of(ser.uniq, r.t[1]), idx_of(ser.uniq, r.t[2]))

\* Pass 3 (lines 257-267): one iteration of the scanner loop with its callback
SerPass3Step ==
    /\ pc = "ser_pass3"
    /\ ser.q <= Len(tsv)
    /\ SerPass3Iter(scan_iteration(tsv, ser.q))
    /\ UNCHANGED <<tsv, bin, out, des, ghost>>

\* the scanner loop of pass 3 ends
SerPass3End ==
    /\ pc = "ser_pass3"
    /\ ser.q > Len(tsv)
    /\ pc' = "ser_sort"
    /\ UNCHANGED <<err, tsv, bin, out, ser, des, ghost>>

Perms(S) == {f \in [S -> S] : \A x \in S : \E y \in S : f[y] = x}

\* the vertex whose range off[i]..off[i+1]-1 holds position k
SliceOf(off, k) == CHOOSE i \in 0..(Size(off) - 2) : off[i] <= k /\ k < off[i + 1]

\* a serializer that leaves the ranges as pass 3 filled them
SortAdjacencySkipped(off, upper_nei, upper_w) == { <<upper_nei, upper_w>> }

\* Lines 270-280.  std::sort with a comparator on .first alone: every
\* arrangement of each vertex's range that is ascending by neighbour is a
\* result the library may produce.  The set of possible <<upper_nei, upper_w>>.
SortAdjacency(off, upper_nei, upper_w) ==
    { << [k \in DOMAIN upper_nei |-> upper_nei[f[k]]],
         [k \in DOMAIN upper_nei |-> upper_w[f[k]]] >> :
        f \in {g \in Perms(DOMAIN upper_nei) :
                 /\ \A k \in DOMAIN upper_nei : SliceOf(off, g[k]) = SliceOf(off, k)
                 /\ \A k, m \in DOMAIN upper_nei :
                       (k < m /\ SliceOf(off, k) = SliceOf(off, m))
                           => upper_nei[g[k]] <= upper_nei[g[m]]} }

\* Line 283.  std::sort of the loops by vertex: the possible results.
SortLoops(loops) ==
    { [k \in DOMAIN loops |-> loops[f[k]]] :
        f \in {g \in Perms(DOMAIN loops) :
                 \A k, m \in DOMAIN loops : k < m => loops[g[k]][1] <= loops[g[m]][1]} }

SerSortAdj ==
    /\ pc = "ser_sort"
    /\ \E r \in SortAdjacency(ser.off, ser.upper_nei, ser.upper_w) :
          ser' = [ser EXCEPT !.upper_nei = r[1], !.upper_w = r[2]]
    /\ pc' = "ser_sortloops"
    /\ UNCHANGED <<err, tsv, bin, out, des, ghost>>

SerSortLoops ==
    /\ pc = "ser_sortloops"
    /\ \E r \in SortLoops(ser.loops) : ser' = [ser EXCEPT !.loops = r]
    /\ pc' = "ser_write"
    /\ UNCHANGED <<err, tsv, bin, out, des, ghost>>

\* a writer that leaves the loops out of the edge count
MTotalWithoutLoops(M_noLoops, loops) == M_noLoops

\* line 290: M_total = M_noLoops + loops.size()
MTotal(M_noLoops, loops) == M_noLoops + Len(loops)

\* Lines 286-328: header, N, M_total, mapping, adjacency, loops, flush
SerWrite ==
    /\ pc = "ser_write"
    /\ ser' = [ser EXCEPT !.M_total = MTotal(ser.M_noLoops, ser.loops)]
    /\ bin' = HeaderV2
              \o BinWriter_varu(U64(Size(ser.uniq)))
              \o BinWriter_varu(U64(MTotal(ser.M_noLoops, ser.loops)))
              \o EmitMapping(ser.uniq)
              \o EmitAdjacency(ser.off, ser.upper_nei, ser.upper_w)
              \o EmitLoops(ser.loops)
    /\ pc' = "ser_done"
    /\ UNCHANGED <<err, tsv, out, des, ghost>>

SerNext ==
    \/ SerPass1 \/ SerEmpty \/ SerUniq \/ SerPass2 \/ SerPrefix
    \/ SerPass3Step \/ SerPass3End \/ SerSortAdj \/ SerSortLoops \/ SerWrite

----------------------------------------------------------------------------
\* Deserializer::run

DesLocals0 ==
    [p |-> 1, version |-> 0, N |-> 0, M_total |-> {}, orig_of |-> <<>>,
     i |-> 0, deg |-> {}, k |-> 0, prev |-> 0, L |-> {}, t |-> 0, acc |-> 0,
     tw_open |-> FALSE, tw_buf |-> <<>>]

\* values an out-of-range read of orig_of may produce
Garbage == {0, U32Max}

\* the header could not be read: [ok, version, N, M_total, p]
HdrBad(msg) == [ok |-> msg, version |-> 0, N |-> 0, M_total |-> {}, p |-> 1]

\* lines 350 and 353, rm the read of M
hdrM(version, N, rm) ==
    IF rm.ok # "ok" THEN HdrBad(rm.ok)
    ELSE [ok |-> "ok", version |-> version, N |-> N, M_total |-> rm.x, p |-> rm.p]

\* line 349, rn the read of N as a u32
hdrN1(buf, rn) ==
    IF rn.ok # "ok" THEN HdrBad(rn.ok) ELSE hdrM(1, rn.x, BinReader_u64le(buf, rn.p))

\* line 352, rn the read of N as a varint
hdrN2(buf, rn) ==
    IF rn.ok # "ok" THEN HdrBad(rn.ok)
    ELSE hdrM(2, U32Cast(rn.x), BinReader_varu(buf, rn.p))

\* lines 345-348, re the read of the endian byte
hdrEndian(buf, version, re) ==
    IF re.ok # "ok" THEN HdrBad(re.ok)
    ELSE IF re.x # 1 THEN HdrBad("unsupported endianness (only little-endian=1)")
    ELSE IF version = 1 THEN hdrN1(buf, BinReader_u32le(buf, re.p))
    ELSE hdrN2(buf, BinReader_varu(buf, re.p))

\* line 344, rv the read of the version byte
hdrVersion(buf, rv) ==
    IF rv.ok # "ok" THEN HdrBad(rv.ok)
    ELSE IF rv.x # 1 /\ rv.x # 2 THEN HdrBad("unsupported version")
    ELSE hdrEndian(buf, rv.x, BinReader_get(buf, rv.p))

\* lines 342-354: magic, version, endian, N, M
ReadHeader(buf) ==
    IF ~BinReader_has(buf, 1, 4) THEN HdrBad("no magic")
    ELSE IF buf[1] # 71 \/ buf[2] # 82 \/ buf[3] # 80 \/ buf[4] # 72
    THEN HdrBad("bad magic, expected 'GRPH'")
    ELSE hdrVersion(buf, BinReader_get(buf, 5))

\* lines 358-359: orig_of[i] = br.u32le() for i = n..N-1; [ok, orig_of, p]
RECURSIVE ReadMappingV1(_, _, _, _)

mapV1Entry(buf, p, orig_of, n, r) ==
    IF r.ok # "ok" THEN [ok |-> r.ok, orig_of |-> orig_of, p |-> p]
    ELSE ReadMappingV1(buf, r.p, [orig_of EXCEPT ![n] = r.x], n + 1)

ReadMappingV1(buf, p, orig_of, n) ==
    IF n >= Size(orig_of) THEN [ok |-> "ok", orig_of |-> orig_of, p |-> p]
    ELSE mapV1Entry(buf, p, orig_of, n, BinReader_u32le(buf, p))

\* lines 364-367: orig_of[i] = orig_of[i-1] + (uint32_t)d for i = n..N-1
RECURSIVE ReadDeltasV2(_, _, _, _)

mapV2Entry(buf, p, orig_of, n, r) ==
    IF r.ok # "ok" THEN [ok |-> r.ok, orig_of |-> orig_of, p |-> p]
    ELSE ReadDeltasV2(buf, r.p,
             [orig_of EXCEPT ![n] = AddU32(orig_of[n - 1], U32Cast(r.x))], n + 1)

ReadDeltasV2(buf, p, orig_of, n) ==
    IF n >= Size(orig_of) THEN [ok |-> "ok", orig_of |-> orig_of, p |-> p]
    ELSE mapV2Entry(buf, p, orig_of, n, BinReader_varu(buf, p))

\* lines 362-363, r the read of the first original id
mapV2First(buf, p, N, r) ==
    IF r.ok # "ok" THEN [ok |-> r.ok, orig_of |-> <<>>, p |-> p]
    ELSE ReadDeltasV2(buf, r.p, [Filled(N, 0) EXCEPT ![0] = r.x], 1)

\* lines 357-369
ReadMapping(buf, p, version, N) ==
    IF version = 1 THEN ReadMappingV1(buf, p, Filled(N, 0), 0)
    ELSE IF N > 0 THEN mapV2First(buf, p, N, BinReader_u32le(buf, p))
    ELSE [ok |-> "ok", orig_of |-> <<>>, p |-> p]

\* the smallest file Deserializer::run accepts: 4+1+1+4+8 (line 339)
MinBinarySize == 18

DesOpenBody(h) ==
    IF h.ok # "ok" THEN Die(h.ok) /\ UNCHANGED des
    ELSE /\ des' = [des EXCEPT !.version = h.version, !.N = h.N,
                               !.M_total = h.M_total, !.p = h.p]
         /\ pc' = "des_mapping"
         /\ UNCHANGED err

\* lines 336-354: size check, header, N and M
DesOpen ==
    /\ pc = "des_start"
    /\ IF Len(bin) < MinBinarySize THEN Die("binary too small") /\ UNCHANGED des
       ELSE DesOpenBody(ReadHeader(bin))
    /\ UNCHANGED <<tsv, bin, out, ser, ghost>>

DesMappingBody(r) ==
    IF r.ok # "ok" THEN Die(r.ok) /\ UNCHANGED des
    ELSE /\ des' = [des EXCEPT !.orig_of = r.orig_of, !.p = r.p]
         /\ pc' = "des_open_out"
         /\ UNCHANGED err

\* lines 357-369
DesMapping ==
    /\ pc = "des_mapping"
    /\ DesMappingBody(ReadMapping(bin, des.p, des.version, des.N))
    /\ UNCHANGED <<tsv, bin, out, ser, ghost>>

\* a TextWriter that opens the output without O_TRUNC
DesOpenOutNoTrunc ==
    /\ pc = "des_open_out"
    /\ des' = [des EXCEPT !.tw_open = TRUE, !.tw_buf = <<>>, !.i = 0]
    /\ pc' = "des_vertex"
    /\ UNCHANGED <<err, tsv, bin, out, ser, ghost>>

\* line 372: TextWriter tw(out_path) creates or truncates the output
DesOpenOut ==
    /\ pc = "des_open_out"
    /\ des' = [des EXCEPT !.tw_open = TRUE, !.tw_buf = <<>>, !.i = 0]
    /\ out' = <<>>
    /\ pc' = "des_vertex"
    /\ UNCHANGED <<err, tsv, bin, ser, ghost>>

DesVertexBody(r) ==
    IF r.ok # "ok" THEN Die(r.ok) /\ UNCHANGED des
    ELSE /\ des' = [des EXCEPT !.deg = r.x, !.prev = des.i, !.k = 0, !.p = r.p]
         /\ pc' = "des_entry"
         /\ UNCHANGED err

\* lines 375-377: the head of the loop over the vertices, deg = br.varu()
DesVertex ==
    /\ pc = "des_vertex"
    /\ IF des.i < des.N
       THEN DesVertexBody(BinReader_varu(bin, des.p))
       ELSE pc' = "des_loops" /\ UNCHANGED <<err, des>>
    /\ UNCHANGED <<tsv, bin, out, ser, ghost>>

\* base + x does not fit a uint32_t (recorded in ghost.bad, not by the program)
Wrapped(base, x) == (\E b \in x : b >= U32Bits) \/ base + U32Cast(x) > U32Max

\* lines 380-386: j = prev + (uint32_t)gap, w = br.get(), the line, prev = j.
\* Reading orig_of[j] with j >= N is undefined behaviour: the run crashes or
\* goes on with some value.
DesEntryEmit(rg, j, rw) ==
    IF rw.ok # "ok" THEN Die(rw.ok) /\ UNCHANGED <<des, ghost>>
    ELSE IF j < des.N
    THEN /\ des' = [des EXCEPT
                       !.tw_buf = @ \o TextLine(des.orig_of[des.i], des.orig_of[j], rw.x),
                       !.prev = j, !.k = @ + 1, !.p = rw.p]
         /\ ghost' = [ghost EXCEPT !.bad = @ \/ Wrapped(des.prev, rg.x)]
         /\ UNCHANGED <<pc, err>>
    ELSE /\ ghost' = [ghost EXCEPT !.bad = TRUE]
         /\ \/ pc' = "crashed" /\ UNCHANGED <<err, des>>
            \/ \E g \in Garbage :
                  /\ des' = [des EXCEPT
                                !.tw_buf = @ \o TextLine(des.orig_of[des.i], g, rw.x),
                                !.prev = j, !.k = @ + 1, !.p = rw.p]
                  /\ UNCHANGED <<pc, err>>

\* line 379, rg the read of the gap
DesEntryGap(rg) ==
    IF rg.ok # "ok" THEN Die(rg.ok) /\ UNCHANGED <<des, ghost>>
    ELSE DesEntryEmit(rg, AddU32(des.prev, U32Cast(rg.x)), BinReader_get(bin, rg.p))

\* lines 378-387: one adjacency entry
DesEntry ==
    /\ pc = "des_entry"
    /\ LessU64(des.k, des.deg)
    /\ DesEntryGap(BinReader_varu(bin, des.p))
    /\ UNCHANGED <<tsv, bin, out, ser>>

\* the end of the loop over the entries of a vertex
DesEntryEnd ==
    /\ pc = "des_entry"
    /\ ~LessU64(des.k, des.deg)
    /\ des' = [des EXCEPT !.i = @ + 1]
    /\ pc' = "des_vertex"
    /\ UNCHANGED <<err, tsv, bin, out, ser, ghost>>

DesLoopsBody(r) ==
    IF r.ok # "ok" THEN Die(r.ok) /\ UNCHANGED des
    ELSE /\ des' = [des EXCEPT !.L = r.x, !.acc = 0, !.t = 0, !.p = r.p]
         /\ pc' = "des_loop"
         /\ UNCHANGED err

\* lines 391-392
DesLoops ==
    /\ pc = "des_loops"
    /\ DesLoopsBody(BinReader_varu(bin, des.p))
    /\ UNCHANGED <<tsv, bin, out, ser, ghost>>

\* lines 395-400: v = acc + (uint32_t)d, w = br.get(), the line, acc = v.
\* Reading orig_of[v] with v >= N is undefined behaviour.
DesLoopEmit(rd, v, rw) ==
    IF rw.ok # "ok" THEN Die(rw.ok) /\ UNCHANGED <<des, ghost>>
    ELSE IF v < des.N
    THEN /\ des' = [des EXCEPT
                       !.tw_buf = @ \o TextLine(des.orig_of[v], des.orig_of[v], rw.x),
                       !.acc = v, !.t = @ + 1, !.p = rw.p]
         /\ ghost' = [ghost EXCEPT !.bad = @ \/ Wrapped(des.acc, rd.x)]
         /\ UNCHANGED <<pc, err>>
    ELSE /\ ghost' = [ghost EXCEPT !.bad = TRUE]
         /\ \/ pc' = "crashed" /\ UNCHANGED <<err, des>>
            \/ \E g \in Garbage :
                  /\ des' = [des EXCEPT
                                !.tw_buf = @ \o TextLine(g, g, rw.x),
                                !.acc = v, !.t = @ + 1, !.p = rw.p]
                  /\ UNCHANGED <<pc, err>>

\* line 394, rd the read of the delta
DesLoopDelta(rd) ==
    IF rd.ok # "ok" THEN Die(rd.ok) /\ UNCHANGED <<des, ghost>>
    ELSE DesLoopEmit(rd, AddU32(des.acc, U32Cast(rd.x)), BinReader_get(bin, rd.p))

\* lines 393-401: one loop entry
DesLoop ==
    /\ pc = "des_loop"
    /\ LessU64(des.t, des.L)
    /\ DesLoopDelta(BinReader_varu(bin, des.p))
    /\ UNCHANGED <<tsv, bin, out, ser>>

\* line 402: tw.flush() writes the buffered text; trailing bytes are not read
DesFlush ==
    /\ pc = "des_loop"
    /\ ~LessU64(des.t, des.L)
    /\ out' = des.tw_buf
    /\ des' = [des EXCEPT !.tw_buf = <<>>]
    /\ pc' = "des_done"
    /\ UNCHANGED <<err, tsv, bin, ser, ghost>>

DesNext ==
    \/ DesOpen \/ DesMapping \/ DesOpenOut \/ DesVertex \/ DesEntry \/ DesEntryEnd
    \/ DesLoops \/ DesLoop \/ DesFlush

----------------------------------------------------------------------------
\* The round trip of one_button_check.sh: serialize a TSV file, then
\* deserialize the binary it produced.

\* lines: the edge lines the input text was written from; content: the fields
\* a hand-made binary was written from, version the format version it is in;
\* x: the number given to the varint writer, raw: the varint input is free
\* bytes; bad: the deserializer rebuilt an index >= N or past 2^32-1;
\* ret: what the operation under test returned; mode: which of -s and -d was
\* run on its own, old: what the output path held before that run
Ghost0 ==
    [lines |-> <<>>, content |-> <<>>, version |-> 0, x |-> {}, raw |-> FALSE,
     bad |-> FALSE, ret |-> <<>>, mode |-> "", old |-> <<>>]

\* the identifiers and weights of the inputs
Ids == {0, 7, U32Max}
Weights == {5, 255}
EdgeLines == Ids \X Ids \X Weights

\* the text of a file of edge lines; eol ends every line but the last, which
\* ends with last
FormatTSV(lines, eol, last) ==
    Flatten([n \in 1..Len(lines) |->
        to_chars(lines[n][1]) \o <<TAB>> \o to_chars(lines[n][2]) \o <<TAB>>
            \o to_chars(lines[n][3]) \o (IF n = Len(lines) THEN last ELSE eol)])

\* the line endings of the inputs: every line ends with LF; the files shorter
\* than MaxLines are also written with CR LF between the lines and nothing
\* after the last
TSVStyles(n) ==
    IF n < MaxLines THEN {<< <<LF>>, <<LF>> >>, << <<CR, LF>>, <<>> >>}
    ELSE {<< <<LF>>, <<LF>> >>}

Init ==
    /\ pc = "ser_start"
    /\ err = ""
    /\ \E lines \in SeqsUpTo(EdgeLines, MaxLines) :
       \E style \in TSVStyles(Len(lines)) :
          /\ tsv = FormatTSV(lines, style[1], style[2])
          /\ ghost = [Ghost0 EXCEPT !.lines = lines]
    /\ bin = <<>>
    /\ out = <<>>
    /\ ser = SerLocals0
    /\ des = DesLocals0

\* one_button_check.sh, steps 1/4 and 2/4: the binary just written is the
\* input of the deserializer
process_case ==
    /\ pc = "ser_done"
    /\ pc' = "des_start"
    /\ UNCHANGED <<err, tsv, bin, out, ser, des, ghost>>

Next == SerNext \/ process_case \/ DesNext

Spec == Init /\ [][Next]_vars

----------------------------------------------------------------------------
\* The fields of a version-2 binary, as the format lays them out (the file
\* comment of main.cpp, lines 21-31), without interpreting them:
\* [ok, N, M, first, deltas, adj, loops, p] with deltas a sequence of N-1
\* numbers, adj a sequence of N sequences of <<gap, weight>>, loops a sequence
\* of <<delta, weight>>, p the index after the last byte read.

DecFail == [ok |-> FALSE, v |-> <<>>, p |-> 0]

\* n records of varint and byte
RECURSIVE decEntries(_, _, _, _)

decEntryW(buf, n, acc, rg, rw) ==
    IF rw.ok # "ok" THEN DecFail
    ELSE decEntries(buf, rw.p, n - 1, Append(acc, <<rg.x, rw.x>>))

decEntryG(buf, n, acc, rg) ==
    IF rg.ok # "ok" THEN DecFail ELSE decEntryW(buf, n, acc, rg, BinReader_get(buf, rg.p))

decEntries(buf, p, n, acc) ==
    IF n = 0 THEN [ok |-> TRUE, v |-> acc, p |-> p]
    ELSE decEntryG(buf, n, acc, BinReader_varu(buf, p))

\* a varint count, then that many records
decCounted(buf, rc) ==
    IF rc.ok # "ok" \/ (\E b \in rc.x : b > 30) THEN DecFail
    ELSE decEntries(buf, rc.p, BitsVal(rc.x), <<>>)

\* n counted lists
RECURSIVE decLists(_, _, _, _)

decListsNext(buf, n, acc, r) ==
    IF ~r.ok THEN DecFail ELSE decLists(buf, r.p, n - 1, Append(acc, r.v))

decLists(buf, p, n, acc) ==
    IF n = 0 THEN [ok |-> TRUE, v |-> acc, p |-> p]
    ELSE decListsNext(buf, n, acc, decCounted(buf, BinReader_varu(buf, p)))

\* n varints
RECURSIVE decVarus(_, _, _, _)

decVarusNext(buf, n, acc, r) ==
    IF r.ok # "ok" THEN DecFail ELSE decVarus(buf, r.p, n - 1, Append(acc, r.x))

decVarus(buf, p, n, acc) ==
    IF n = 0 THEN [ok |-> TRUE, v |-> acc, p |-> p]
    ELSE decVarusNext(buf, n, acc, BinReader_varu(buf, p))

DecBad == [ok |-> FALSE, N |-> 0, M |-> {}, first |-> 0, deltas |-> <<>>,
           adj |-> <<>>, loops |-> <<>>, p |-> 0]

decLoops(h, rf, rd, ra, rl) ==
    IF ~rl.ok THEN DecBad
    ELSE [ok |-> TRUE, N |-> h.N, M |-> h.M_total, first |-> rf.x, deltas |-> rd.v,
          adj |-> ra.v, loops |-> rl.v, p |-> rl.p]

decAdj(buf, h, rf, rd, ra) ==
    IF ~ra.ok THEN DecBad
    ELSE decLoops(h, rf, rd, ra, decCounted(buf, BinReader_varu(buf, ra.p)))

decDeltas(buf, h, rf, rd) ==
    IF ~rd.ok THEN DecBad ELSE decAdj(buf, h, rf, rd, decLists(buf, rd.p, h.N, <<>>))

decFirst(buf, h, rf) ==
    IF rf.ok # "ok" THEN DecBad
    ELSE decDeltas(buf, h, rf, decVarus(buf, rf.p, h.N - 1, <<>>))

decHeader(buf, h) ==
    IF h.ok # "ok" \/ h.version # 2 THEN DecBad
    ELSE IF h.N = 0
    THEN decAdj(buf, h, [ok |-> "ok", x |-> 0, p |-> h.p], [ok |-> TRUE, v |-> <<>>, p |-> h.p],
                [ok |-> TRUE, v |-> <<>>, p |-> h.p])
    ELSE decFirst(buf, h, BinReader_u32le(buf, h.p))

DecodeV2(buf) == decHeader(buf, ReadHeader(buf))

----------------------------------------------------------------------------
\* Properties of the round trip (specification Spec).

Failed == pc \in {"error", "crashed", "undefined"}

SerRunning ==
    pc \in {"ser_start", "ser_pass1_done", "ser_pass2", "ser_prefix", "ser_pass3",
            "ser_sort", "ser_sortloops", "ser_write"}

Canon(t) == <<Min2(t[1], t[2]), Max2(t[1], t[2]), t[3]>>

\* the multiset of a sequence: how often each element occurs
BagOf(sq) == [x \in Range(sq) |-> Cardinality({n \in DOMAIN sq : sq[n] = x})]

\* the multiset { (min(u,v), max(u,v), w) } of a sequence of lines
EdgeBag(lines) == BagOf([n \in DOMAIN lines |-> Canon(lines[n])])

SameEdges(r, lines) == r.ok = "ok" /\ EdgeBag(r.triples) = EdgeBag(lines)

\* C1: for every valid input, serializing and then deserializing ends
\* successfully, and the output lines are the input lines as a multiset of
\* (min(u,v), max(u,v), w).
RoundTripIdentity ==
    /\ ~Failed
    /\ pc = "des_done" => SameEdges(for_each_triplet(out), ghost.lines)

\* Every round trip that the deserializer completes gives the input multiset,
\* and the only failure of a round trip is the size check of line 339.
RoundTripOfAcceptedBinaries ==
    /\ pc = "des_done" => SameEdges(for_each_triplet(out), ghost.lines)
    /\ Failed => pc = "error" /\ err = "binary too small" /\ Len(bin) < MinBinarySize

EmptyBinary == <<71, 82, 80, 72, 2, 1, 0, 0>>

\* C2: a zero-byte input serializes to the 8 bytes 47 52 50 48 02 01 00 00,
\* and deserializing them succeeds and gives zero bytes of text.
EmptyScenario ==
    tsv = <<>> =>
        /\ ~Failed
        /\ ~SerRunning => bin = EmptyBinary
        /\ pc = "des_done" => out = <<>>

Small(x) == \A b \in x : b <= 30

\* the sum of the first n numbers of a sequence of <<uint64, byte>> records
RECURSIVE GapSum(_, _)
GapSum(es, n) == IF n = 0 THEN 0 ELSE BitsVal(es[n][1]) + GapSum(es, n - 1)

RECURSIVE DeltaSum(_, _)
DeltaSum(ds, n) == IF n = 0 THEN 0 ELSE BitsVal(ds[n]) + DeltaSum(ds, n - 1)

ShapeOK(d) ==
    /\ d.ok /\ d.p = Len(bin) + 1
    /\ d.N >= 1
    /\ Len(d.deltas) = d.N - 1 /\ Len(d.adj) = d.N
    \* the mapping is strictly ascending: every delta >= 1, no wrap-around
    /\ \A n \in DOMAIN d.deltas : Small(d.deltas[n]) /\ BitsVal(d.deltas[n]) >= 1
    /\ d.first + DeltaSum(d.deltas, Len(d.deltas)) <= U32Max
    \* the neighbours of vertex i are i < j < N, non-decreasing
    /\ \A i \in DOMAIN d.adj : \A n \in DOMAIN d.adj[i] :
          /\ Small(d.adj[i][n][1])
          /\ n = 1 => BitsVal(d.adj[i][n][1]) >= 1
          /\ (i - 1) + GapSum(d.adj[i], n) < d.N
    \* the loop vertices are below N, non-decreasing
    /\ \A n \in DOMAIN d.loops :
          /\ Small(d.loops[n][1])
          /\ GapSum(d.loops, n) < d.N

\* C4: in every binary written for a non-empty valid input the mapping is
\* strictly ascending (every delta >= 1), the neighbours j of each vertex i
\* are non-decreasing with i < j < N (first gap >= 1, no underflow), and the
\* loop vertices are non-decreasing (no underflow).
CanonicalShape == (pc = "ser_done" /\ ser.line_cnt # 0) => ShapeOK(DecodeV2(bin))

\* neighbours given in descending order, a multi-edge and a loop
ReorderedInput(d) ==
    /\ d.ok
    /\ \E i \in DOMAIN d.adj :
          /\ Len(d.adj[i]) = 2
          /\ d.adj[i][1][1] = U64(1) /\ d.adj[i][2][1] = U64(1)
    /\ Len(d.loops) = 1

CanonicalShapeWitness ==
    /\ pc = "ser_done"
    /\ ghost.lines = << <<0, U32Max, 5>>, <<7, 0, 255>>, <<7, 7, 5>> >>
    /\ ReorderedInput(DecodeV2(bin))

CountsAgree(d) ==
    /\ BitsVal(d.M) = Len(ghost.lines)
    /\ BitsVal(d.M) = SumSeq([i \in DOMAIN d.adj |-> Len(d.adj[i])]) + Len(d.loops)

\* C6: the M_total of the header is the number of edge lines of the input and
\* the sum of the written deg+(i) plus the written loop count L (the binary
\* of the empty input ends after M_total = 0).
MTotalIsEdgeCount ==
    pc = "ser_done" =>
        IF ghost.lines = <<>>
        THEN bin = EmptyBinary /\ ReadHeader(bin).M_total = {}
        ELSE DecodeV2(bin).ok /\ CountsAgree(DecodeV2(bin))

MTotalWitness ==
    /\ pc = "ser_done"
    /\ Len(ghost.lines) = 3
    /\ ser.M_noLoops = 2 /\ Len(ser.loops) = 1
    /\ BitsVal(ReadHeader(bin).M_total) = 3

----------------------------------------------------------------------------
\* The varint codec alone (specification SpecVarint): a number is written as
\* an adjacency entry writes its gap, bw.varu(x); bw.put(w) (lines 311-312),
\* and read back, br.varu() (line 379); or br.varu() reads free bytes.

\* 2^k and 2^k - 1 for every k, and alternating bits
VarintValues ==
    {{k} : k \in 0..63} \cup {0..(k - 1) : k \in 0..64}
        \cup {{b \in 0..k : b % 2 = 0} : k \in 0..63}

\* bytes of the free inputs: with and without the continuation bit
RawBytes == {0, 127, 128, 255}

\* up to 11 bytes with the continuation bit, then up to MaxRaw free bytes
RawVarints ==
    {[n \in 1..k |-> c] \o tl :
        k \in 0..11, c \in {128, 255}, tl \in SeqsUpTo(RawBytes, MaxRaw)}

InitVarint ==
    /\ pc \in {"var_start", "var_raw"}
    /\ err = ""
    /\ tsv = <<>>
    /\ out = <<>>
    /\ ser = SerLocals0
    /\ des = DesLocals0
    /\ IF pc = "var_start"
       THEN /\ bin = <<>>
            /\ \E x \in VarintValues : ghost = [Ghost0 EXCEPT !.x = x]
       ELSE /\ bin \in RawVarints
            /\ ghost = [Ghost0 EXCEPT !.raw = TRUE]

\* bw.varu(x); bw.put(w) with w = 0xFF
VarEncode ==
    /\ pc = "var_start"
    /\ bin' = BinWriter_varu(ghost.x) \o <<255>>
    /\ pc' = "var_encoded"
    /\ UNCHANGED <<err, tsv, out, ser, des, ghost>>

VarDecodeBody(r) ==
    /\ ghost' = [ghost EXCEPT !.ret = r]
    /\ IF r.ok # "ok" THEN Die(r.ok) ELSE pc' = "var_decoded" /\ UNCHANGED err

\* br.varu() at the start of the bytes
VarDecode ==
    /\ pc \in {"var_encoded", "var_raw"}
    /\ VarDecodeBody(BinReader_varu(bin, 1))
    /\ UNCHANGED <<tsv, bin, out, ser, des>>

NextVarint == VarEncode \/ VarDecode

SpecVarint == InitVarint /\ [][NextVarint]_vars

\* the highest one-bit of a non-zero uint64_t
TopBit(x) == CHOOSE b \in x : \A c \in x : c <= b

\* ceil(bitlen(x) / 7), 1 for x = 0
VarintLen(x) == IF x = {} THEN 1 ELSE (TopBit(x) \div 7) + 1

\* C7: for every x in [0, 2^64) the reader returns x from the bytes the writer
\* emitted for x and consumes exactly those bytes, and the writer emitted
\* ceil(bitlen(x)/7) bytes, 1 for x = 0, at most 10.
VarintRoundTrip ==
    ~ghost.raw =>
        /\ pc # "error"
        /\ pc \in {"var_encoded", "var_decoded"} =>
              /\ Len(bin) - 1 = VarintLen(ghost.x)
              /\ Len(bin) - 1 <= 10
        /\ pc = "var_decoded" =>
              /\ ghost.ret.x = ghost.x
              /\ ghost.ret.p = Len(bin)

\* 2^64 - 1 went through ten bytes
VarintRoundTripWitness ==
    /\ pc = "var_decoded"
    /\ ghost.x = 0..63
    /\ Len(bin) = 11
    /\ ghost.ret.x = 0..63

\* the index of the first byte without the continuation bit, 0 if there is none
FirstClear(buf) ==
    IF \E n \in DOMAIN buf : buf[n] < 128
    THEN CHOOSE n \in DOMAIN buf : buf[n] < 128 /\ \A m \in 1..(n - 1) : buf[m] >= 128
    ELSE 0

VarintOutcome(buf, stop) ==
    IF stop # 0 /\ stop <= 10
    THEN pc = "var_decoded" /\ ghost.ret.p = stop + 1
    ELSE IF Len(buf) >= 10
    THEN pc = "error" /\ err = "varint too long" /\ ghost.ret.p = 11
    ELSE pc = "error" /\ err = "unexpected EOF (varint)" /\ ghost.ret.p = Len(buf) + 1

\* C9: the reader fails with "varint too long" when the tenth byte still has
\* the continuation bit (the shift would pass 63), with "unexpected EOF" when
\* the input ends before a byte without the continuation bit, otherwise it
\* returns a value; it never reads past the end of the input.
VarintDecodeFailure ==
    pc \in {"var_decoded", "error"} =>
        /\ VarintOutcome(bin, FirstClear(bin))
        /\ ghost.ret.p <= Len(bin) + 1

\* ten continuation bytes followed by more input
VarintDecodeFailureWitness ==
    /\ pc = "error"
    /\ err = "varint too long"
    /\ Len(bin) > 10
    /\ FirstClear(bin) = 11

----------------------------------------------------------------------------
\* The scanner alone (specification SpecScan): the loop of for_each_triplet
\* over free text, one iteration at a time, with the callback of pass 1
\* (lines 208-211). ghost.ret records each iteration: where it started, what
\* it did and where it stopped.

\* the pieces the texts are put together from: digits, among them the largest
\* uint32 and weight and the first values past them, TAB, LF, CR, a letter
\* and a whole line body
Fragments ==
    {<<49>>, <<50, 51>>, to_chars(255), to_chars(256), to_chars(U32Max),
     to_chars(U32Mod), <<TAB>>, <<LF>>, <<CR>>, <<120>>,
     <<49, TAB, 50, TAB, 51>>}

ScanTexts == {Flatten(fs) : fs \in SeqsUpTo(Fragments, MaxFrags)}

InitScan ==
    /\ pc = "scan"
    /\ err = ""
    /\ tsv \in ScanTexts
    /\ bin = <<>>
    /\ out = <<>>
    /\ ser = SerLocals0
    /\ des = DesLocals0
    /\ ghost = Ghost0

ScanLog(r) ==
    ghost' = [ghost EXCEPT !.ret = Append(@, [from |-> ser.q, kind |-> r.kind,
                                              to |-> r.q, t |-> r.t, msg |-> r.msg])]

ScanIter(r) ==
    /\ ScanLog(r)
    /\ IF r.kind = "die" THEN Die(r.msg) /\ UNCHANGED ser
       ELSE IF r.kind = "skip" THEN ser' = [ser EXCEPT !.q = r.q] /\ UNCHANGED <<pc, err>>
       ELSE /\ ser' = [ser EXCEPT !.all_ids = @ \o <<r.t[1], r.t[2]>>,
                                  !.line_cnt = @ + 1,
                                  !.q = r.q]
            /\ UNCHANGED <<pc, err>>

\* one iteration of the while loop of for_each_triplet (lines 163-177)
ScanStep ==
    /\ pc = "scan"
    /\ ser.q <= Len(tsv)
    /\ ScanIter(scan_iteration(tsv, ser.q))
    /\ UNCHANGED <<tsv, bin, out, des>>

\* the loop ends at the end of the text
ScanEnd ==
    /\ pc = "scan"
    /\ ser.q > Len(tsv)
    /\ pc' = "scan_done"
    /\ UNCHANGED <<err, tsv, bin, out, ser, des, ghost>>

NextScan == ScanStep \/ ScanEnd

SpecScan == InitScan /\ [][NextScan]_vars

\* the index of the first byte at or after q that is not a decimal digit
RECURSIVE DigitsEnd(_, _)
DigitsEnd(txt, q) ==
    IF q <= Len(txt) /\ txt[q] >= 48 /\ txt[q] <= 57 THEN DigitsEnd(txt, q + 1) ELSE q

\* the decimal value of the digits txt[a..b-1], U32Mod for any value past U32Max
RECURSIVE DecVal(_, _, _)
DecVal(txt, a, b) ==
    IF a >= b THEN 0
    ELSE IF DecVal(txt, a, b - 1) * 10 + (txt[b - 1] - 48) > U32Max THEN U32Mod
    ELSE DecVal(txt, a, b - 1) * 10 + (txt[b - 1] - 48)

\* the three digit runs of the line that starts at s: field 1 is txt[s..i1-1],
\* field 2 txt[i1+1..i2-1], field 3 txt[i2+1..i3-1]
Runs3(txt, s, i1, i2) == [s |-> s, i1 |-> i1, i2 |-> i2, i3 |-> DigitsEnd(txt, i2 + 1)]
Runs2(txt, s, i1) == Runs3(txt, s, i1, DigitsEnd(txt, i1 + 1))
Runs(txt, s) == Runs2(txt, s, DigitsEnd(txt, s))

\* digits TAB digits TAB digits, every run non-empty and in range
ThreeFields(txt, f) ==
    /\ f.i1 > f.s /\ f.i1 <= Len(txt) /\ txt[f.i1] = TAB
    /\ f.i2 > f.i1 + 1 /\ f.i2 <= Len(txt) /\ txt[f.i2] = TAB
    /\ f.i3 > f.i2 + 1
    /\ DecVal(txt, f.s, f.i1) <= U32Max
    /\ DecVal(txt, f.i1 + 1, f.i2) <= U32Max
    /\ DecVal(txt, f.i2 + 1, f.i3) <= 255

FieldValues(txt, f) ==
    <<DecVal(txt, f.s, f.i1), DecVal(txt, f.i1 + 1, f.i2), DecVal(txt, f.i2 + 1, f.i3)>>

\* a CR at n with a byte other than LF after it
LoneCR(txt, n) == n < Len(txt) /\ txt[n] = CR /\ txt[n + 1] # LF

\* the byte at n ends a line: the end of the input, LF, or a CR
Terminator(txt, n) == n > Len(txt) \/ txt[n] = LF \/ txt[n] = CR

\* the index after the terminator at n
AfterTerminator(txt, n) ==
    IF n > Len(txt) THEN n
    ELSE IF txt[n] = CR /\ n < Len(txt) /\ txt[n + 1] = LF THEN n + 2
    ELSE n + 1

ParseErrors ==
    {"parse error: expected first uint32 before TAB",
     "parse error: expected second uint32 before TAB",
     "parse error: expected weight 0..255 then newline"}

\* the iteration e took the line at f with the terminators ok allows, and
\* died of anything else
IterationAgrees(txt, e, f, ok) ==
    IF ThreeFields(txt, f) /\ ok
    THEN e.kind = "triple" /\ e.t = FieldValues(txt, f) /\ e.to = AfterTerminator(txt, f.i3)
    ELSE e.kind = "die" /\ e.msg \in ParseErrors

LineIterations == {n \in DOMAIN ghost.ret : ghost.ret[n].kind # "skip"}

\* C10 as stated: a line is accepted only as digits TAB digits TAB digits
\* followed by LF, CR LF or the end of the input, and a CR with another byte
\* than LF after it is a parse error.
ScanLineStrict ==
    \A n \in LineIterations :
        IterationAgrees(tsv, ghost.ret[n], Runs(tsv, ghost.ret[n].from),
            /\ Terminator(tsv, Runs(tsv, ghost.ret[n].from).i3)
            /\ ~LoneCR(tsv, Runs(tsv, ghost.ret[n].from).i3))

\* C10: the scanner accepts a line only as digits TAB digits TAB digits (every
\* run non-empty, the ids at most 2^32-1, the weight at most 255) followed by
\* LF, CR, CR LF or the end of the input; any other byte in the line, an empty
\* or out-of-range field, or the end of the input before the third field's
\* digits ends the run with a parse error.
ScanLine ==
    \A n \in LineIterations :
        IterationAgrees(tsv, ghost.ret[n], Runs(tsv, ghost.ret[n].from),
            Terminator(tsv, Runs(tsv, ghost.ret[n].from).i3))

\* a line ended by a lone CR was accepted and the line after it as well
ScanLineWitness ==
    /\ pc = "scan_done"
    /\ Len(ghost.ret) = 2
    /\ ghost.ret[1].kind = "triple"
    /\ ghost.ret[2].kind = "triple"
    /\ LoneCR(tsv, ghost.ret[1].to - 1)

----------------------------------------------------------------------------
\* The deserializer alone (specification SpecDecode), on hand-made binaries:
\* the same fields (N, M, orig, upper adjacency, loops) laid out as version 1
\* (the file comment, lines 6-19) and then as version 2 (lines 21-31). The
\* fields need not be consistent: a gap may lead past N or past 2^32-1.

\* the gaps and loop deltas of the hand-made binaries
Gaps == {0, 1, 2, U32Mod}

\* an adjacency or loop record: the gap or delta and the weight
Records == Gaps \X {255}

Origs == {<<>>, <<7>>, <<0, 7>>, <<0, U32Max>>}

EntryCount(adj, loops) == SumSeq([n \in DOMAIN adj |-> Len(adj[n])]) + Len(loops)

\* at most MaxEntries records in all
Contents ==
    {[N |-> Len(orig), M |-> EntryCount(adj, loops), orig |-> orig,
      adj |-> adj, loops |-> loops] :
        <<orig, adj, loops>> \in
            {t \in UNION {{o} \X [1..Len(o) -> SeqsUpTo(Records, MaxEntries)]
                              \X SeqsUpTo(Records, MaxEntries) : o \in Origs} :
                EntryCount(t[2], t[3]) <= MaxEntries}}

\* [gap: VarUInt][weight: 1 byte] for every record
CraftRecords(es) ==
    Flatten([n \in 1..Len(es) |-> BinWriter_varu(U64(es[n][1])) \o <<es[n][2]>>])

\* Section B and Section C, the same in both versions
CraftSections(c) ==
    Flatten([n \in 1..c.N |->
                BinWriter_varu(U64(Len(c.adj[n]))) \o CraftRecords(c.adj[n])])
        \o BinWriter_varu(U64(Len(c.loops))) \o CraftRecords(c.loops)

\* version 1: [uint32 N][uint64 M], N * uint32
CraftV1(c) ==
    <<71, 82, 80, 72, 1, 1>> \o BinWriter_u32le(c.N) \o BinWriter_u64le(U64(c.M))
        \o Flatten([n \in 1..c.N |-> BinWriter_u32le(c.orig[n])])
        \o CraftSections(c)

\* version 2: [VarUInt N][VarUInt M], the first id and N-1 deltas
CraftV2(c) ==
    HeaderV2 \o BinWriter_varu(U64(c.N)) \o BinWriter_varu(U64(c.M))
        \o (IF c.N > 0 THEN BinWriter_u32le(c.orig[1]) ELSE <<>>)
        \o Flatten([n \in 1..(c.N - 1) |->
                       BinWriter_varu(U64(c.orig[n + 1] - c.orig[n]))])
        \o CraftSections(c)

InitDecode ==
    /\ pc = "des_start"
    /\ err = ""
    /\ tsv = <<>>
    /\ out = <<>>
    /\ ser = SerLocals0
    /\ des = DesLocals0
    /\ \E c \in Contents :
          /\ bin = CraftV1(c)
          /\ ghost = [Ghost0 EXCEPT !.content = c, !.version = 1]

DesEnded == pc \in {"des_done", "error", "crashed"}

\* the run on the version-1 binary is over: its outcome is kept in ghost.ret
\* and the deserializer is run again, on the version-2 binary of the same
\* fields, with another output path
Reencode ==
    /\ DesEnded
    /\ ghost.version = 1
    /\ ghost' = [ghost EXCEPT !.version = 2, !.bad = FALSE,
                              !.ret = [pc |-> pc, err |-> err, out |-> out]]
    /\ bin' = CraftV2(ghost.content)
    /\ des' = DesLocals0
    /\ out' = <<>>
    /\ err' = ""
    /\ pc' = "des_start"
    /\ UNCHANGED <<tsv, ser>>

NextDecode == DesNext \/ Reencode

SpecDecode == InitDecode /\ [][NextDecode]_vars

\* C3: whenever a rebuilt neighbour index j = prev + gap is >= N, or
\* prev + gap is past 2^32-1, or a rebuilt loop vertex is >= N, the
\* deserializer ends in an error: it neither reads orig_of there nor goes on.
CorruptIndexIsError == ghost.bad => pc = "error"

GapSumOf(es) == SumSeq([n \in DOMAIN es |-> es[n][1]])

\* every neighbour index and loop vertex the fields lead to is below N
ValidContent(c) ==
    /\ \A n \in 1..c.N : c.adj[n] = <<>> \/ (n - 1) + GapSumOf(c.adj[n]) < c.N
    /\ c.loops = <<>> \/ GapSumOf(c.loops) < c.N

\* C8: for the same fields, the deserializer emits the same text for the
\* version-1 binary as for the version-2 binary.
CrossVersionRead ==
    (ghost.version = 2 /\ DesEnded /\ ValidContent(ghost.content)) =>
        /\ pc = ghost.ret.pc
        /\ out = ghost.ret.out

----------------------------------------------------------------------------
\* Pass 3 of the serializer: the fill of the upper adjacency storage.

\* the entry a line leaves in the range of vertex u: its other end and weight
edgeOfLine(u, ia, ib, w) ==
    IF ia # ib /\ Min2(ia, ib) = u THEN << <<Max2(ia, ib), w>> >> ELSE <<>>

\* the entries the lines leave in the range of u, in input order
EdgesOf(lines, uniq, u) ==
    Flatten([n \in DOMAIN lines |->
                edgeOfLine(u, idx_of(uniq, lines[n][1]), idx_of(uniq, lines[n][2]),
                           lines[n][3])])

loopOfLine(ia, ib, w) == IF ia = ib THEN << <<ia, w>> >> ELSE <<>>

\* the self-loops among the lines, in input order
LoopsOf(lines, uniq) ==
    Flatten([n \in DOMAIN lines |->
                loopOfLine(idx_of(uniq, lines[n][1]), idx_of(uniq, lines[n][2]),
                           lines[n][3])])

Vertices == 0..(Size(ser.uniq) - 1)

\* the number of lines the callback of pass 3 has stored
StoredCount ==
    SumSeq([n \in 1..Size(ser.uniq) |-> ser.cur[n - 1] - ser.off[n - 1]]) + Len(ser.loops)

\* what the range of u holds below its cursor
StoredIn(u) ==
    [n \in 1..(ser.cur[u] - ser.off[u]) |->
        <<ser.upper_nei[ser.off[u] + n - 1], ser.upper_w[ser.off[u] + n - 1]>>]

\* the cursors are inside their ranges; below the cursor the range of u holds
\* the stored lines of u, once each, above it nothing was written (a written
\* neighbour is never 0); the loops are the stored self-loops
FillExact(lines) ==
    /\ \A u \in Vertices :
          /\ ser.off[u] <= ser.cur[u] /\ ser.cur[u] <= ser.off[u + 1]
          /\ StoredIn(u) = EdgesOf(lines, ser.uniq, u)
          /\ \A k \in ser.cur[u]..(ser.off[u + 1] - 1) :
                ser.upper_nei[k] = 0 /\ ser.upper_w[k] = 0
    /\ ser.loops = LoopsOf(lines, ser.uniq)

\* C11: each non-loop line is stored exactly once, in the range of
\* min(ia, ib) with neighbour max(ia, ib) and its weight; throughout pass 3
\* off[u] <= cur[u] <= off[u+1], no write lands in another range or past
\* off[N], no slot is written twice; at the end of pass 3 cur[u] = off[u+1]
\* for every u and loops holds loops_count entries.
CsrFillExact ==
    /\ pc # "undefined"
    /\ pc \in {"ser_pass3", "ser_sort"} =>
          /\ StoredCount <= Len(ghost.lines)
          /\ FillExact(SubSeq(ghost.lines, 1, StoredCount))
    /\ pc = "ser_sort" =>
          /\ StoredCount = Len(ghost.lines)
          /\ \A u \in Vertices : ser.cur[u] = ser.off[u + 1]
          /\ Len(ser.loops) = ser.loops_count

\* pass 3 ended on a self-loop and two edges of different vertices, one of
\* them written with the larger id first
CsrFillExactWitness ==
    /\ pc = "ser_sort"
    /\ Len(ser.loops) = 1
    /\ Size(ser.uniq) = 3
    /\ ser.cur[0] = 1 /\ ser.cur[1] = 2
    /\ \E n \in DOMAIN ghost.lines : ghost.lines[n][1] > ghost.lines[n][2]

----------------------------------------------------------------------------
\* One run of the program on its own (specification SpecFrame), -s on any
\* text or -d on any binary, with an output path that may exist already.

\* the output path does not exist (no byte is -1)
Absent == <<-1>>

\* the bytes "old" of an earlier output
Stale == <<111, 108, 100>>

OldFiles == {Absent, Stale}

\* hand-made binaries, every truncation of them and every header with one
\* byte zeroed
Truncations(b) == {SubSeq(b, 1, n) : n \in 0..Len(b)}
BadHeaders(b) == {[b EXCEPT ![k] = 0] : k \in 1..6}
FrameBinaries(cs) ==
    UNION {Truncations(b) \cup BadHeaders(b) :
              b \in {CraftV1(c) : c \in cs} \cup {CraftV2(c) : c \in cs}}

InitFrame ==
    /\ err = ""
    /\ ser = SerLocals0
    /\ des = DesLocals0
    /\ \E old \in OldFiles :
          \/ /\ pc = "ser_start"
             /\ tsv \in ScanTexts
             /\ bin = old
             /\ out = <<>>
             /\ ghost = [Ghost0 EXCEPT !.mode = "serialize", !.old = old]
          \/ /\ pc = "des_start"
             /\ tsv = <<>>
             /\ bin \in FrameBinaries(Contents)
             /\ out = old
             /\ ghost = [Ghost0 EXCEPT !.mode = "deserialize", !.old = old]

NextFrame == SerNext \/ DesNext

SpecFrame == InitFrame /\ [][NextFrame]_vars

\* the deserializer cannot read the mapping after the header h
MappingFails(buf, h) == h.ok # "ok" \/ ReadMapping(buf, h.p, h.version, h.N).ok # "ok"

\* the binary fails the size check, the header or the mapping
HeaderOrMappingFails(buf) ==
    Len(buf) < MinBinarySize \/ MappingFails(buf, ReadHeader(buf))

\* C12: the serializer opens its output only after the three scanner passes,
\* so a run that ends in an error leaves the output path as it was; the
\* deserializer opens its output only after the header and the whole mapping,
\* so a header or mapping error leaves the output path as it was, while an
\* error in the adjacency or loop section finds the output truncated.
OutputFrame ==
    /\ ghost.mode = "serialize" =>
          /\ pc # "undefined"
          /\ (SerRunning \/ pc = "error") => bin = ghost.old
    /\ ghost.mode = "deserialize" =>
          /\ pc \in {"des_start", "des_mapping", "des_open_out"} => out = ghost.old
          /\ pc \in {"error", "crashed"} =>
                out = (IF HeaderOrMappingFails(bin) THEN ghost.old ELSE <<>>)

\* a binary with a whole mapping and a cut adjacency section left an earlier
\* output truncated
OutputFrameWitness ==
    /\ ghost.mode = "deserialize"
    /\ pc = "error"
    /\ ghost.old = Stale
    /\ ~HeaderOrMappingFails(bin)
    /\ out = <<>>

====
